---- MODULE Spec2Model ----
(***************************************************************************)
(* Edge-side DVFS service (src/edge.py): CPUController, GPUController and  *)
(* the command dispatcher handle_client.                                   *)
(*                                                                         *)
(* The hardware state the service writes (the governor of every CPU core   *)
(* and of the GPU) is kept in variables.  What the service only reads from *)
(* sysfs (frequency tables, readability of a governor file, existence of   *)
(* the GPU frequency knobs) and the outcome of every `sudo tee` write are  *)
(* inputs of the command that reads them.  A connection is accepted and    *)
(* its command decoded (Accept), dispatched and answered (one action per   *)
(* branch of handle_client), then closed (Close); data that is not JSON is *)
(* answered without a dispatch (InvalidJson).  The I/O a command           *)
(* performed is recorded, in order, in resp.log.                           *)
(*                                                                         *)
(* A frequency request is a rational number n/d (d > 0); float rounding of *)
(* the product frequency * (len - 1) is not modelled.  NoFrequency and     *)
(* NonNumeric stand for an absent and for a non-numeric frequency.         *)
(***************************************************************************)
EXTENDS Integers, Sequences, FiniteSets, TLC

VARIABLES cpuGov,     \* core -> content of cpu<c>/cpufreq/scaling_governor
          gpuGov,     \* content of <gpu_path>/governor
          gpu_path,   \* GPUController.gpu_path
          gpu_dirs,   \* the indices of the gpu_paths that exist on the filesystem
          pc,         \* where main() / handle_client is
          cmd,        \* the decoded command of the open connection
          resp        \* its response, and the I/O the command performed

vars == <<cpuGov, gpuGov, gpu_path, gpu_dirs, pc, cmd, resp>>

----------------------------------------------------------------------------
(* Bounds *)

NumCores == 2
MaxLen == 3

----------------------------------------------------------------------------
(* Values *)

None == "None"

Governors == {"userspace", "ondemand"}

\* CPUController.available_cpus: the sorted list of core indices
available_cpus == [i \in 1..NumCores |-> i - 1]

Cores == {available_cpus[i] : i \in 1..NumCores}

\* GPUController.gpu_paths, in priority order
gpu_paths == << "/sys/devices/gpu.0/devfreq/17000000.gp10b",
                "/sys/devices/17000000.gp10b/devfreq/17000000.gp10b",
                "/sys/kernel/debug/bpmp/debug/clk/gpcclk/rate",
                "/sys/devices/platform/gpu.0/devfreq/gpu.0" >>

\* the hard-coded table GPUController.get_available_frequencies falls back to
GpuFallbackFreqs == << 76800000, 153600000, 230400000, 307200000, 384000000,
                       460800000, 537600000, 614400000, 691200000, 768000000,
                       844800000, 921600000, 998400000, 1075200000, 1152000000,
                       1228800000, 1267200000, 1300500000 >>

\* the write locations GPUController.set_frequency tries, in order:
\* 1 = userspace/freq, 2 = min_freq, 3 = max_freq
GpuKnobs == {1, 2, 3}

Range(s) == {s[i] : i \in 1..Len(s)}

Abs(a) == IF a >= 0 THEN a ELSE -a

\* one I/O operation of a command
Ev(op, dom, unit, gov, freq, ok) ==
    [op |-> op, dom |-> dom, unit |-> unit, gov |-> gov, freq |-> freq, ok |-> ok]

----------------------------------------------------------------------------
(* Target resolution: the arithmetic of set_frequency *)

\* Python int() of the rational n/d: truncation toward zero
Trunc(n, d) == IF n >= 0 THEN n \div d ELSE -((-n) \div d)

IsIndexRatio_closed(frequency) == 0 <= frequency.n /\ frequency.n <= frequency.d

\* `0 < frequency < 1`
IsIndexRatio(frequency) == 0 < frequency.n /\ frequency.n < frequency.d

IndexOf_wholeLength(frequency, len) == Trunc(frequency.n * len, frequency.d)

\* `int(frequency * (len(available_freqs) - 1))`
IndexOf(frequency, len) == Trunc(frequency.n * (len - 1), frequency.d)

\* `int(frequency)`
IntOf(frequency) == Trunc(frequency.n, frequency.d)

\* `min(available_freqs, key=lambda x: abs(x - target_freq))`: the first entry,
\* in list order, of minimal distance
Nearest(available_freqs, target_freq) ==
    LET i == CHOOSE i \in 1..Len(available_freqs) :
                 \A j \in 1..Len(available_freqs) :
                     \/ Abs(available_freqs[i] - target_freq)
                            < Abs(available_freqs[j] - target_freq)
                     \/ /\ Abs(available_freqs[i] - target_freq)
                            = Abs(available_freqs[j] - target_freq)
                        /\ i <= j
    IN  available_freqs[i]

\* a frequency that is not a number (a JSON string): no n/d stands for it
NonNumeric == [n |-> 0, d |-> -1]

\* the index branch or the absolute branch; raised = TypeError of the
\* comparison with a non-number, or IndexError on an empty list
PickTarget(frequency, available_freqs) ==
    IF frequency = NonNumeric THEN [raised |-> TRUE, target |-> 0]
    ELSE IF IsIndexRatio(frequency)
    THEN LET idx == IndexOf(frequency, Len(available_freqs))
         IN  IF idx + 1 \in 1..Len(available_freqs)
             THEN [raised |-> FALSE, target |-> available_freqs[idx + 1]]
             ELSE [raised |-> TRUE, target |-> 0]
    ELSE [raised |-> FALSE, target |-> IntOf(frequency)]

\* CPUController.set_frequency, target resolution; min() of an empty list raises
CpuResolve(frequency, available_freqs) ==
    LET p == PickTarget(frequency, available_freqs)
    IN  IF p.raised THEN p
        ELSE IF p.target \notin Range(available_freqs)
        THEN IF Len(available_freqs) = 0
             THEN [raised |-> TRUE, target |-> 0]
             ELSE [raised |-> FALSE, target |-> Nearest(available_freqs, p.target)]
        ELSE p

\* GPUController.set_frequency, target resolution; an empty list is not searched
GpuResolve(frequency, available_freqs) ==
    LET p == PickTarget(frequency, available_freqs)
    IN  IF p.raised THEN p
        ELSE IF p.target \notin Range(available_freqs) /\ Len(available_freqs) > 0
        THEN [raised |-> FALSE, target |-> Nearest(available_freqs, p.target)]
        ELSE p

\* Python sorted() of a list of integers
RECURSIVE Insert(_, _)
Insert(s, x) ==
    IF Len(s) = 0 THEN <<x>>
    ELSE IF x < Head(s) THEN <<x>> \o s
    ELSE <<Head(s)>> \o Insert(Tail(s), x)

RECURSIVE Sorted(_)
Sorted(s) == IF Len(s) = 0 THEN <<>> ELSE Insert(Sorted(Tail(s)), Head(s))

----------------------------------------------------------------------------
(* CPUController *)

Scope_allCores(cpu) == available_cpus

\* `cpus = [cpu] if cpu is not None else self.available_cpus`; the cpu argument
\* is <<>> for None and <<c>> for core index c
Scope(cpu) == IF Len(cpu) > 0 THEN cpu ELSE available_cpus

\* CPUController.get_current_governor: None when the file cannot be read
CpuReadGovernor(c, gov, readOk) == IF readOk /\ c \in Cores THEN gov[c] ELSE None

\* CPUController.get_available_frequencies: [] when the file cannot be read
CpuReadFrequencies(c, tables) == IF c \in Cores THEN tables[c] ELSE <<>>

\* the outcome of `echo v | sudo tee <file of core c>`
CpuWriteOk(c, wok) == c \in Cores /\ wok[c]

RECURSIVE CpuGovernorLoop_continue(_, _, _, _, _, _)
CpuGovernorLoop_continue(cpus, i, governor, gov, wok, log) ==
    IF i > Len(cpus)
    THEN [gov |-> gov, log |-> log,
          ret |-> \A k \in 1..Len(log) : log[k].ok]
    ELSE LET c == cpus[i]
         IN  IF CpuWriteOk(c, wok)
             THEN CpuGovernorLoop_continue(cpus, i + 1, governor,
                      [gov EXCEPT ![c] = governor], wok,
                      Append(log, Ev("gov_write", "cpu", c, governor, 0, TRUE)))
             ELSE CpuGovernorLoop_continue(cpus, i + 1, governor, gov, wok,
                      Append(log, Ev("gov_write", "cpu", c, governor, 0, FALSE)))

\* the loop of CPUController.set_governor over cpus[i..]: the first failing
\* write returns False
RECURSIVE CpuGovernorLoop(_, _, _, _, _, _)
CpuGovernorLoop(cpus, i, governor, gov, wok, log) ==
    IF i > Len(cpus) THEN [gov |-> gov, log |-> log, ret |-> TRUE]
    ELSE LET c == cpus[i]
         IN  IF CpuWriteOk(c, wok)
             THEN CpuGovernorLoop(cpus, i + 1, governor,
                                  [gov EXCEPT ![c] = governor], wok,
                                  Append(log, Ev("gov_write", "cpu", c, governor, 0, TRUE)))
             ELSE [gov |-> gov,
                   log |-> Append(log, Ev("gov_write", "cpu", c, governor, 0, FALSE)),
                   ret |-> FALSE]

\* CPUController.set_governor
CpuSetGovernor(governor, cpu, gov, wok) ==
    CpuGovernorLoop(Scope(cpu), 1, governor, gov, wok, <<>>)

NeedsSwitch_unlessUnreadable(current_gov) == current_gov \notin {"userspace", None}

\* `if current_gov != 'userspace'`
NeedsSwitch(current_gov) == current_gov # "userspace"

RECURSIVE CpuFrequencyLoop_abort(_, _, _, _, _, _, _)
CpuFrequencyLoop_abort(cpus, i, target_freq, gov, wok, log, success_count) ==
    IF i > Len(cpus) THEN [log |-> log, success_count |-> success_count]
    ELSE LET c == cpus[i]
             g == IF c \in Cores THEN gov[c] ELSE None
         IN  IF CpuWriteOk(c, wok)
             THEN CpuFrequencyLoop_abort(cpus, i + 1, target_freq, gov, wok,
                      Append(log, Ev("freq_write", "cpu", c, g, target_freq, TRUE)),
                      success_count + 1)
             ELSE [log |-> Append(log, Ev("freq_write", "cpu", c, g, target_freq, FALSE)),
                   success_count |-> success_count]

\* the write loop of CPUController.set_frequency over cpus[i..]; an event
\* records the governor the written core is under when the write is issued
RECURSIVE CpuFrequencyLoop(_, _, _, _, _, _, _)
CpuFrequencyLoop(cpus, i, target_freq, gov, wok, log, success_count) ==
    IF i > Len(cpus) THEN [log |-> log, success_count |-> success_count]
    ELSE LET c == cpus[i]
             g == IF c \in Cores THEN gov[c] ELSE None
         IN  IF CpuWriteOk(c, wok)
             THEN CpuFrequencyLoop(cpus, i + 1, target_freq, gov, wok,
                                   Append(log, Ev("freq_write", "cpu", c, g, target_freq, TRUE)),
                                   success_count + 1)
             ELSE CpuFrequencyLoop(cpus, i + 1, target_freq, gov, wok,
                                   Append(log, Ev("freq_write", "cpu", c, g, target_freq, FALSE)),
                                   success_count)

\* `return success_count > 0`
CpuFrequencyResult(success_count) == success_count > 0

CpuSetFrequency_sampleLast(frequency, cpu, gov, tables, readOk, govOk, freqOk) ==
    LET cpus == Scope(cpu)
        current_gov == CpuReadGovernor(cpus[Len(cpus)], gov, readOk)
        rd == <<Ev("gov_read", "cpu", cpus[Len(cpus)], current_gov, 0, readOk)>>
        sw == IF NeedsSwitch(current_gov)
              THEN CpuSetGovernor("userspace", cpu, gov, govOk)
              ELSE [gov |-> gov, log |-> <<>>, ret |-> TRUE]
        available_freqs == CpuReadFrequencies(cpus[1], tables)
        tr == <<Ev("table_read", "cpu", cpus[1], None, 0, available_freqs # <<>>)>>
        res == CpuResolve(frequency, available_freqs)
        wr == CpuFrequencyLoop(cpus, 1, res.target, sw.gov, freqOk, <<>>, 0)
    IN  IF res.raised
        THEN [raised |-> TRUE, ret |-> FALSE, gov |-> sw.gov,
              log |-> rd \o sw.log \o tr,
              avail |-> available_freqs, target |-> 0]
        ELSE [raised |-> FALSE, ret |-> CpuFrequencyResult(wr.success_count),
              gov |-> sw.gov, log |-> rd \o sw.log \o tr \o wr.log,
              avail |-> available_freqs, target |-> res.target]

CpuSetFrequency_tableOfLast(frequency, cpu, gov, tables, readOk, govOk, freqOk) ==
    LET cpus == Scope(cpu)
        current_gov == CpuReadGovernor(cpus[1], gov, readOk)
        rd == <<Ev("gov_read", "cpu", cpus[1], current_gov, 0, readOk)>>
        sw == IF NeedsSwitch(current_gov)
              THEN CpuSetGovernor("userspace", cpu, gov, govOk)
              ELSE [gov |-> gov, log |-> <<>>, ret |-> TRUE]
        available_freqs == CpuReadFrequencies(cpus[Len(cpus)], tables)
        tr == <<Ev("table_read", "cpu", cpus[Len(cpus)], None, 0, available_freqs # <<>>)>>
        res == CpuResolve(frequency, available_freqs)
        wr == CpuFrequencyLoop(cpus, 1, res.target, sw.gov, freqOk, <<>>, 0)
    IN  IF res.raised
        THEN [raised |-> TRUE, ret |-> FALSE, gov |-> sw.gov,
              log |-> rd \o sw.log \o tr,
              avail |-> available_freqs, target |-> 0]
        ELSE [raised |-> FALSE, ret |-> CpuFrequencyResult(wr.success_count),
              gov |-> sw.gov, log |-> rd \o sw.log \o tr \o wr.log,
              avail |-> available_freqs, target |-> res.target]

\* CPUController.set_frequency.  tables: core -> content of its
\* scaling_available_frequencies; readOk: the governor file of the first core
\* is readable; govOk, freqOk: core -> outcome of the governor / frequency write
CpuSetFrequency(frequency, cpu, gov, tables, readOk, govOk, freqOk) ==
    LET cpus == Scope(cpu)
        current_gov == CpuReadGovernor(cpus[1], gov, readOk)
        rd == <<Ev("gov_read", "cpu", cpus[1], current_gov, 0, readOk)>>
        sw == IF NeedsSwitch(current_gov)
              THEN CpuSetGovernor("userspace", cpu, gov, govOk)
              ELSE [gov |-> gov, log |-> <<>>, ret |-> TRUE]
        available_freqs == CpuReadFrequencies(cpus[1], tables)
        tr == <<Ev("table_read", "cpu", cpus[1], None, 0, available_freqs # <<>>)>>
        res == CpuResolve(frequency, available_freqs)
        wr == CpuFrequencyLoop(cpus, 1, res.target, sw.gov, freqOk, <<>>, 0)
    IN  IF res.raised
        THEN [raised |-> TRUE, ret |-> FALSE, gov |-> sw.gov,
              log |-> rd \o sw.log \o tr,
              avail |-> available_freqs, target |-> 0]
        ELSE [raised |-> FALSE, ret |-> CpuFrequencyResult(wr.success_count),
              gov |-> sw.gov, log |-> rd \o sw.log \o tr \o wr.log,
              avail |-> available_freqs, target |-> res.target]

\* CPUController.get_current_frequency: the content of scaling_cur_freq, <<v>>,
\* or <<>> (None) when the read raises; cur: core -> content
CpuReadCurrent(c, cur) == IF c \in Cores THEN cur[c] ELSE <<>>

CpuStatusEntry_allOrNothing(c, current_freq, governor, available_freqs) ==
    IF current_freq = <<>> \/ governor = None \/ available_freqs = <<>>
    THEN [name |-> c, current_freq |-> <<>>, governor |-> None, available_freqs |-> <<>>]
    ELSE [name |-> c, current_freq |-> current_freq, governor |-> governor,
          available_freqs |-> available_freqs]

\* the value stored under the key cpu{c} by CPUController.get_status
CpuStatusEntry(c, current_freq, governor, available_freqs) ==
    [name |-> c, current_freq |-> current_freq, governor |-> governor,
     available_freqs |-> available_freqs]

\* the j-th read CPUController.get_status issues for core c, in the order of
\* the dict literal: current_freq, governor, available_freqs
CpuStatusRead(c, j, gov, cur, readOk, tables) ==
    IF j = 1
    THEN LET current_freq == CpuReadCurrent(c, cur)
         IN  Ev("freq_read", "cpu", c, None,
                IF current_freq = <<>> THEN 0 ELSE current_freq[1], current_freq # <<>>)
    ELSE IF j = 2
    THEN LET governor == CpuReadGovernor(c, gov, readOk[c])
         IN  Ev("gov_read", "cpu", c, governor, 0, readOk[c])
    ELSE Ev("table_read", "cpu", c, None, 0, CpuReadFrequencies(c, tables) # <<>>)

\* the reads of CPUController.get_status, core after core
CpuStatusLog(gov, cur, readOk, tables) ==
    [k \in 1..(3 * Len(available_cpus)) |->
        CpuStatusRead(available_cpus[((k - 1) \div 3) + 1], ((k - 1) % 3) + 1,
                      gov, cur, readOk, tables)]

\* CPUController.get_status: one entry per core of available_cpus.
\* cur: core -> content of scaling_cur_freq; readOk: core -> the governor file
\* is readable; tables: core -> content of scaling_available_frequencies
CpuGetStatus(gov, cur, readOk, tables) ==
    [status |-> [i \in 1..Len(available_cpus) |->
                    LET c == available_cpus[i]
                    IN  CpuStatusEntry(c, CpuReadCurrent(c, cur),
                                       CpuReadGovernor(c, gov, readOk[c]),
                                       CpuReadFrequencies(c, tables))],
     log |-> CpuStatusLog(gov, cur, readOk, tables)]

----------------------------------------------------------------------------
(* GPUController *)

\* GPUController.find_gpu_path: the first candidate that exists, or None;
\* exists is the set of indices of gpu_paths present on the filesystem
find_gpu_path(exists) ==
    IF exists = {} THEN None
    ELSE gpu_paths[CHOOSE i \in exists : \A j \in exists : i <= j]

\* GPUController.get_current_governor: None without a path, or when the
\* governor file is absent or unreadable
GpuReadGovernor(path, gov, readOk) == IF path # None /\ readOk THEN gov ELSE None

GpuReadFrequencies_fallbackIfEmpty(path, file) ==
    IF path = None THEN <<>>
    ELSE IF file.present /\ file.freqs # <<>> THEN Sorted(file.freqs)
    ELSE GpuFallbackFreqs

\* GPUController.get_available_frequencies; file.present: the list file exists
\* and parses, file.freqs: its values in file order
GpuReadFrequencies(path, file) ==
    IF path = None THEN <<>>
    ELSE IF file.present THEN Sorted(file.freqs)
    ELSE GpuFallbackFreqs

\* GPUController.set_governor
GpuSetGovernor(governor, path, gov, wok) ==
    IF path = None THEN [gov |-> gov, log |-> <<>>, ret |-> FALSE]
    ELSE IF wok
    THEN [gov |-> governor, log |-> <<Ev("gov_write", "gpu", 0, governor, 0, TRUE)>>,
          ret |-> TRUE]
    ELSE [gov |-> gov, log |-> <<Ev("gov_write", "gpu", 0, governor, 0, FALSE)>>,
          ret |-> FALSE]

RECURSIVE GpuFrequencyLoop_firstSuccess(_, _, _, _, _, _)
GpuFrequencyLoop_firstSuccess(k, target_freq, gov, knob, log, success) ==
    IF k \notin GpuKnobs THEN [log |-> log, success |-> success]
    ELSE IF knob[k] = "absent"
    THEN GpuFrequencyLoop_firstSuccess(k + 1, target_freq, gov, knob,
             Append(log, Ev("exists", "gpu", k, None, 0, FALSE)), success)
    ELSE IF knob[k] = "ok"
    THEN [log |-> Append(Append(log, Ev("exists", "gpu", k, None, 0, TRUE)),
                         Ev("freq_write", "gpu", k, gov, target_freq, TRUE)),
          success |-> TRUE]
    ELSE GpuFrequencyLoop_firstSuccess(k + 1, target_freq, gov, knob,
             Append(Append(log, Ev("exists", "gpu", k, None, 0, TRUE)),
                    Ev("freq_write", "gpu", k, gov, target_freq, FALSE)),
             success)

\* the loop of GPUController.set_frequency over freq_paths[k..]; knob[k] is
\* "absent" (os.path.exists is false), "ok" or "fail" (the write's outcome).
\* Each os.path.exists is logged as an "exists" event with its answer
RECURSIVE GpuFrequencyLoop(_, _, _, _, _, _)
GpuFrequencyLoop(k, target_freq, gov, knob, log, success) ==
    IF k \notin GpuKnobs THEN [log |-> log, success |-> success]
    ELSE IF knob[k] = "absent"
    THEN GpuFrequencyLoop(k + 1, target_freq, gov, knob,
                          Append(log, Ev("exists", "gpu", k, None, 0, FALSE)), success)
    ELSE IF knob[k] = "ok"
    THEN GpuFrequencyLoop(k + 1, target_freq, gov, knob,
                          Append(Append(log, Ev("exists", "gpu", k, None, 0, TRUE)),
                                 Ev("freq_write", "gpu", k, gov, target_freq, TRUE)),
                          TRUE)
    ELSE GpuFrequencyLoop(k + 1, target_freq, gov, knob,
                          Append(Append(log, Ev("exists", "gpu", k, None, 0, TRUE)),
                                 Ev("freq_write", "gpu", k, gov, target_freq, FALSE)),
                          success)

\* GPUController.set_frequency
GpuSetFrequency(frequency, path, gov, file, readOk, govOk, knob) ==
    IF path = None
    THEN [raised |-> FALSE, ret |-> FALSE, gov |-> gov, log |-> <<>>,
          avail |-> <<>>, target |-> 0]
    ELSE
    LET current_gov == GpuReadGovernor(path, gov, readOk)
        rd == <<Ev("gov_read", "gpu", 0, current_gov, 0, readOk)>>
        sw == IF NeedsSwitch(current_gov)
              THEN GpuSetGovernor("userspace", path, gov, govOk)
              ELSE [gov |-> gov, log |-> <<>>, ret |-> TRUE]
        available_freqs == GpuReadFrequencies(path, file)
        tr == <<Ev("table_read", "gpu", 0, None, 0, file.present)>>
        res == GpuResolve(frequency, available_freqs)
        wr == GpuFrequencyLoop(1, res.target, sw.gov, knob, <<>>, FALSE)
    IN  IF res.raised
        THEN [raised |-> TRUE, ret |-> FALSE, gov |-> sw.gov,
              log |-> rd \o sw.log \o tr,
              avail |-> available_freqs, target |-> 0]
        ELSE [raised |-> FALSE, ret |-> wr.success, gov |-> sw.gov,
              log |-> rd \o sw.log \o tr \o wr.log,
              avail |-> available_freqs, target |-> res.target]

\* GPUController.get_current_frequency: None without a path, or when cur_freq
\* is absent or unreadable; cur is the file's content, <<v>>, or <<>>
GpuReadCurrent(path, cur) == IF path = None THEN <<>> ELSE cur

\* GPUController.get_status; without a path no getter touches the filesystem
GpuGetStatus(path, gov, cur, readOk, file) ==
    LET current_freq == GpuReadCurrent(path, cur)
        governor == GpuReadGovernor(path, gov, readOk)
        available_freqs == GpuReadFrequencies(path, file)
    IN  [status |-> [current_freq |-> current_freq, governor |-> governor,
                     available_freqs |-> available_freqs, path |-> path],
         log |-> IF path = None THEN <<>>
                 ELSE << Ev("freq_read", "gpu", 0, None,
                            IF current_freq = <<>> THEN 0 ELSE current_freq[1],
                            current_freq # <<>>),
                         Ev("gov_read", "gpu", 0, governor, 0, governor # None),
                         Ev("table_read", "gpu", 0, None, 0, file.present) >>]

----------------------------------------------------------------------------
(* Inputs *)

MaxDen == 4

\* a frequency request n/d
Req(n, d) == [n |-> n, d |-> d]

\* the requests of the dispatcher specification: an index ratio, and an
\* absolute target that is an entry of one table and of no other
Requests == {Req(1, 2), Req(200, 1)}

\* contents of a core's scaling_available_frequencies (<<>>: unreadable)
CpuTableFiles == {<<>>, <<100, 300>>, <<100, 200>>}

\* the GPU's available_frequencies file: absent or unparsable, empty, or listed
NoFile == [present |-> FALSE, freqs |-> <<>>]

GpuTableFiles == {NoFile, [present |-> TRUE, freqs |-> <<>>],
                  [present |-> TRUE, freqs |-> <<300, 100>>]}

CpuArgs == {<<>>} \cup {<<c>> : c \in Cores}

\* the tables of the cores: core 0 lists t0, every other core lists t1
CpuTables(t0, t1) == [c \in Cores |-> IF c = 0 THEN t0 ELSE t1]

\* the table files of the dispatcher specification: every core lists the same
\* table, or core 0 lists an entry the other cores do not
CpuTableSets ==
    {CpuTables(t, t) : t \in CpuTableFiles} \cup {CpuTables(<<100, 200>>, <<100, 300>>)}

\* which of gpu_paths exist when the controllers are constructed
GpuFilesystems == {{}, {1}, {2, 4}}

\* values of the command's target key; "npu" stands for any other string
Targets == {"cpu", "gpu", "all", "npu"}

\* `controller = cpu_controller if target == 'cpu' else gpu_controller`
SelectsCpu_orAll(target) == target \in {"cpu", "all"}

SelectsCpu(target) == target = "cpu"

\* the actions handle_client knows
KnownActions == {"set_frequency", "get_status", "set_governor"}

\* action strings of no branch; "" is what cmd.get('action', '') gives a
\* command without the key
UnknownActions == {"", "reboot"}

\* cmd.get('frequency') of a command without the key: None
NoFrequency == Req(0, 0)

Command(action, target, frequency, cpu, governor) ==
    [action |-> action, target |-> target, frequency |-> frequency,
     cpu |-> cpu, governor |-> governor]

NoCmd == Command("none", "none", Req(0, 1), <<>>, "none")

NoTables == [c \in Cores |-> <<>>]

\* a response message: the format string and the value interpolated into it
Message(fmt, arg) == [fmt |-> fmt, arg |-> arg]

\* target.upper()
Upper(target) ==
    CASE target = "cpu" -> "CPU"
      [] target = "gpu" -> "GPU"
      [] target = "all" -> "ALL"
      [] target = "npu" -> "NPU"
      [] OTHER -> target

\* no response sent yet.  has_timestamp: the dict has the key timestamp;
\* cpu_status: the CPU snapshot (keys current_status, status_info, cpu_status),
\* gpu_status: <<the GPU snapshot>>; <<>> when the dict has no such key;
\* tables, gpu_file: the table files the command was given to read
NoResp == [status |-> "none", raised |-> FALSE, log |-> <<>>, avail |-> <<>>,
           target_freq |-> 0, tables |-> NoTables, msg |-> Message("", ""),
           has_timestamp |-> FALSE, sent |-> 0, cpu_status |-> <<>>,
           gpu_status |-> <<>>, gpu_file |-> NoFile]

\* the commands of the dispatcher specification; a core index that does not
\* exist, the target "npu" and a non-numeric frequency come with one command each
Commands ==
    {Command("set_frequency", "cpu", f, c, "none") : f \in Requests, c \in CpuArgs}
    \cup {Command("set_frequency", "cpu", Req(200, 1), <<NumCores>>, "none")}
    \cup {Command("set_frequency", t, f, <<>>, "none") :
        t \in {"gpu", "all"}, f \in Requests}
    \cup {Command("set_frequency", "npu", Req(200, 1), <<>>, "none")}
    \cup {Command("set_frequency", "cpu", NonNumeric, <<>>, "none")}
    \cup {Command("set_frequency", t, NoFrequency, <<>>, "none") : t \in Targets}
    \cup {Command("set_governor", "cpu", Req(0, 1), c, g) :
        c \in CpuArgs, g \in Governors}
    \cup {Command("set_governor", t, Req(0, 1), <<>>, g) :
        t \in Targets \ {"cpu"}, g \in Governors}
    \cup {Command("get_status", t, Req(0, 1), <<>>, "none") : t \in Targets}
    \cup {Command(a, t, Req(0, 1), <<>>, "none") :
        a \in UnknownActions, t \in {"cpu", "gpu"}}

\* the requests of the resolution specification: every n/d around [0, 1] with
\* d <= MaxDen, and absolute targets on, between and outside the table values
FreqVals == {100, 200, 400, 800}

ResolveRequests ==
    {Req(a, b) : a \in -(MaxDen + 1)..(2 * MaxDen + 1), b \in 1..MaxDen}
    \cup {Req(a, 1) : a \in {50, 100, 150, 200, 250, 300, 350, 400, 600, 800, 900}}
    \cup {Req(301, 2), Req(-301, 2)}

RECURSIVE SeqsUpTo(_, _)
SeqsUpTo(S, k) ==
    IF k = 0 THEN {<<>>}
    ELSE LET shorter == SeqsUpTo(S, k - 1)
         IN  shorter \cup {Append(s, x) : s \in shorter, x \in S}

\* every table file of at most MaxLen entries, in any order, duplicates included
ResolveTables == SeqsUpTo(FreqVals, MaxLen)

ResolveCommands ==
    {Command("set_frequency", t, f, <<>>, "none") :
        t \in {"cpu", "gpu"}, f \in ResolveRequests}

AllOk == [c \in Cores |-> TRUE]

\* contents of scaling_cur_freq / cur_freq: unreadable, or a value
CurFreqFiles == {<<>>, <<100>>}

\* every core's scaling_cur_freq reads <<100>>, or none is readable
CurAll(ok) == [c \in Cores |-> IF ok THEN <<100>> ELSE <<>>]

\* every core's governor file is readable, or none is
ReadAll(ok) == [c \in Cores |-> ok]

\* the table files the status specification reads
StatusTableFiles == {<<>>, <<100, 300>>}

StatusCommands == {Command("get_status", t, Req(0, 1), <<>>, "none") : t \in Targets}

----------------------------------------------------------------------------
(* main() and handle_client *)

\* `response = {'status': 'success', 'timestamp': ...}` with its message
Success(msg) ==
    [status |-> "success", raised |-> FALSE, log |-> <<>>, avail |-> <<>>,
     target_freq |-> 0, tables |-> NoTables, msg |-> msg, has_timestamp |-> TRUE,
     sent |-> 1, cpu_status |-> <<>>, gpu_status |-> <<>>, gpu_file |-> NoFile]

\* `response = {'status': 'error', 'message': ...}`: a new dict that replaces
\* the one built at dispatch
Error(msg) ==
    [status |-> "error", raised |-> FALSE, log |-> <<>>, avail |-> <<>>,
     target_freq |-> 0, tables |-> NoTables, msg |-> msg, has_timestamp |-> FALSE,
     sent |-> 1, cpu_status |-> <<>>, gpu_status |-> <<>>, gpu_file |-> NoFile]

\* what the call recorded, added to the response for the properties to read
Recorded(base, r, tables, cpu_status, gpu_status, log) ==
    [status |-> base.status, raised |-> r.raised, log |-> log, avail |-> r.avail,
     target_freq |-> r.target, tables |-> tables, msg |-> base.msg,
     has_timestamp |-> base.has_timestamp, sent |-> base.sent,
     cpu_status |-> cpu_status, gpu_status |-> gpu_status, gpu_file |-> NoFile]

\* the response with the GPU list file the call was given; without a path
\* the file is never opened
WithFile(response, path, file) ==
    [response EXCEPT !.gpu_file = IF path = None THEN NoFile ELSE file]

Response_unhandled(r, ok, failed) ==
    IF r.raised THEN NoResp
    ELSE IF r.ret THEN Success(ok) ELSE Error(failed)

\* the response handle_client sends for a set_* call that returned `success`
\* or raised: the `except Exception` branch answers status error with str(e)
Response(r, ok, failed) ==
    IF r.raised THEN Error(Message("str(e)", "exception"))
    ELSE IF r.ret THEN Success(ok) ELSE Error(failed)

\* the state after construction: the controllers are built, no connection yet
Init ==
    /\ cpuGov \in [Cores -> Governors]
    /\ gpuGov \in Governors
    /\ gpu_dirs \in GpuFilesystems
    /\ gpu_path = find_gpu_path(gpu_dirs)
    /\ pc = "idle"
    /\ cmd = NoCmd
    /\ resp = NoResp

Accept_overlapping(c) ==
    /\ pc # "dispatching"
    /\ cmd' = c
    /\ pc' = "dispatching"
    /\ UNCHANGED <<cpuGov, gpuGov, gpu_path, gpu_dirs, resp>>

\* accept() and recv(): a connection delivers one decoded command
Accept(c) ==
    /\ pc = "idle"
    /\ cmd' = c
    /\ pc' = "dispatching"
    /\ UNCHANGED <<cpuGov, gpuGov, gpu_path, gpu_dirs, resp>>

\* recv() delivers data json.loads rejects: answered before any dispatch
InvalidJson ==
    /\ pc = "idle"
    /\ resp' = Error(Message("invalid JSON", ""))
    /\ pc' = "responding"
    /\ UNCHANGED <<cpuGov, gpuGov, gpu_path, gpu_dirs, cmd>>

MissingFrequency_afterSwitch ==
    /\ pc = "dispatching"
    /\ cmd.action = "set_frequency"
    /\ cmd.frequency = NoFrequency
    /\ LET sw == CpuSetGovernor("userspace", <<>>, cpuGov, AllOk)
           r == [raised |-> FALSE, avail |-> <<>>, target |-> 0]
       IN  /\ cpuGov' = sw.gov
           /\ resp' = Recorded(Error(Message("missing frequency parameter", "")),
                               r, NoTables, <<>>, <<>>, sw.log)
    /\ pc' = "responding"
    /\ UNCHANGED <<gpuGov, gpu_path, gpu_dirs, cmd>>

\* set_frequency without the frequency key
MissingFrequency ==
    /\ pc = "dispatching"
    /\ cmd.action = "set_frequency"
    /\ cmd.frequency = NoFrequency
    /\ resp' = Error(Message("missing frequency parameter", ""))
    /\ pc' = "responding"
    /\ UNCHANGED <<cpuGov, gpuGov, gpu_path, gpu_dirs, cmd>>

SetFrequencyCpu_restoring(tables, readOk, govOk, freqOk, cur, statusOk) ==
    /\ pc = "dispatching"
    /\ cmd.action = "set_frequency"
    /\ cmd.frequency # NoFrequency
    /\ SelectsCpu(cmd.target)
    /\ LET r == CpuSetFrequency(cmd.frequency, cmd.cpu, cpuGov, tables,
                                readOk, govOk, freqOk)
           st == CpuGetStatus(r.gov, cur, statusOk, tables)
           base == Response(r, Message("frequency set", Upper(cmd.target)),
                            Message("frequency setting failed", Upper(cmd.target)))
       IN  /\ cpuGov' = IF base.status = "success" THEN r.gov ELSE cpuGov
           /\ resp' = IF base.status = "success"
                      THEN Recorded(base, r, tables, st.status, <<>>, r.log \o st.log)
                      ELSE Recorded(base, r, tables, <<>>, <<>>, r.log)
    /\ pc' = "responding"
    /\ UNCHANGED <<gpuGov, gpu_path, gpu_dirs, cmd>>

\* set_frequency, target cpu; the snapshot of a successful call is read with
\* cur and statusOk (see CpuGetStatus).  Next reads the snapshot's files as
\* readable exactly when the first governor read was
SetFrequencyCpu(tables, readOk, govOk, freqOk, cur, statusOk) ==
    /\ pc = "dispatching"
    /\ cmd.action = "set_frequency"
    /\ cmd.frequency # NoFrequency
    /\ SelectsCpu(cmd.target)
    /\ LET r == CpuSetFrequency(cmd.frequency, cmd.cpu, cpuGov, tables,
                                readOk, govOk, freqOk)
           st == CpuGetStatus(r.gov, cur, statusOk, tables)
           base == Response(r, Message("frequency set", Upper(cmd.target)),
                            Message("frequency setting failed", Upper(cmd.target)))
       IN  /\ cpuGov' = r.gov
           /\ resp' = IF base.status = "success"
                      THEN Recorded(base, r, tables, st.status, <<>>, r.log \o st.log)
                      ELSE Recorded(base, r, tables, <<>>, <<>>, r.log)
    /\ pc' = "responding"
    /\ UNCHANGED <<gpuGov, gpu_path, gpu_dirs, cmd>>

\* set_frequency, any other target
SetFrequencyGpu(file, readOk, govOk, knob, cur, statusOk) ==
    /\ pc = "dispatching"
    /\ cmd.action = "set_frequency"
    /\ cmd.frequency # NoFrequency
    /\ ~SelectsCpu(cmd.target)
    /\ LET r == GpuSetFrequency(cmd.frequency, gpu_path, gpuGov, file,
                                readOk, govOk, knob)
           st == GpuGetStatus(gpu_path, r.gov, cur, statusOk, file)
           base == Response(r, Message("frequency set", Upper(cmd.target)),
                            Message("frequency setting failed", Upper(cmd.target)))
       IN  /\ gpuGov' = r.gov
           /\ resp' = WithFile(IF base.status = "success"
                               THEN Recorded(base, r, NoTables, <<>>, <<st.status>>,
                                             r.log \o st.log)
                               ELSE Recorded(base, r, NoTables, <<>>, <<>>, r.log),
                               gpu_path, file)
    /\ pc' = "responding"
    /\ UNCHANGED <<cpuGov, gpu_path, gpu_dirs, cmd>>

GetStatusAll_gpuIfFound(cur, readOk, tables, gcur, greadOk, file) ==
    /\ pc = "dispatching"
    /\ cmd.action = "get_status"
    /\ cmd.target = "all"
    /\ LET c == CpuGetStatus(cpuGov, cur, readOk, tables)
           g == GpuGetStatus(gpu_path, gpuGov, gcur, greadOk, file)
           r == [raised |-> FALSE, avail |-> <<>>, target |-> 0]
       IN  resp' = Recorded(Success(Message("CPU and GPU status", "")), r, tables,
                            c.status,
                            IF gpu_path = None THEN <<>> ELSE <<g.status>>,
                            c.log \o g.log)
    /\ pc' = "responding"
    /\ UNCHANGED <<cpuGov, gpuGov, gpu_path, gpu_dirs, cmd>>

\* get_status, target all
GetStatusAll(cur, readOk, tables, gcur, greadOk, file) ==
    /\ pc = "dispatching"
    /\ cmd.action = "get_status"
    /\ cmd.target = "all"
    /\ LET c == CpuGetStatus(cpuGov, cur, readOk, tables)
           g == GpuGetStatus(gpu_path, gpuGov, gcur, greadOk, file)
           r == [raised |-> FALSE, avail |-> <<>>, target |-> 0]
       IN  resp' = WithFile(Recorded(Success(Message("CPU and GPU status", "")), r,
                                     tables, c.status, <<g.status>>, c.log \o g.log),
                            gpu_path, file)
    /\ pc' = "responding"
    /\ UNCHANGED <<cpuGov, gpuGov, gpu_path, gpu_dirs, cmd>>

GetStatusCpu_enforcing(cur, readOk, tables) ==
    /\ pc = "dispatching"
    /\ cmd.action = "get_status"
    /\ cmd.target # "all"
    /\ SelectsCpu(cmd.target)
    /\ LET sw == CpuSetGovernor("userspace", <<>>, cpuGov, AllOk)
           c == CpuGetStatus(sw.gov, cur, readOk, tables)
           r == [raised |-> FALSE, avail |-> <<>>, target |-> 0]
       IN  /\ cpuGov' = sw.gov
           /\ resp' = Recorded(Success(Message("CPU status", "")), r, tables,
                               c.status, <<>>, sw.log \o c.log)
    /\ pc' = "responding"
    /\ UNCHANGED <<gpuGov, gpu_path, gpu_dirs, cmd>>

\* get_status, target cpu
GetStatusCpu(cur, readOk, tables) ==
    /\ pc = "dispatching"
    /\ cmd.action = "get_status"
    /\ cmd.target # "all"
    /\ SelectsCpu(cmd.target)
    /\ LET c == CpuGetStatus(cpuGov, cur, readOk, tables)
           r == [raised |-> FALSE, avail |-> <<>>, target |-> 0]
       IN  resp' = Recorded(Success(Message("CPU status", "")), r, tables,
                            c.status, <<>>, c.log)
    /\ pc' = "responding"
    /\ UNCHANGED <<cpuGov, gpuGov, gpu_path, gpu_dirs, cmd>>

GetStatusGpu_reprobing(gcur, greadOk, file) ==
    /\ pc = "dispatching"
    /\ cmd.action = "get_status"
    /\ cmd.target # "all"
    /\ ~SelectsCpu(cmd.target)
    /\ LET path == find_gpu_path(gpu_dirs)
           g == GpuGetStatus(path, gpuGov, gcur, greadOk, file)
           r == [raised |-> FALSE, avail |-> <<>>, target |-> 0]
       IN  /\ gpu_path' = path
           /\ resp' = Recorded(Success(Message("GPU status", "")), r, NoTables,
                               <<>>, <<g.status>>, g.log)
    /\ pc' = "responding"
    /\ UNCHANGED <<cpuGov, gpuGov, gpu_dirs, cmd>>

\* get_status, any other target
GetStatusGpu(gcur, greadOk, file) ==
    /\ pc = "dispatching"
    /\ cmd.action = "get_status"
    /\ cmd.target # "all"
    /\ ~SelectsCpu(cmd.target)
    /\ LET g == GpuGetStatus(gpu_path, gpuGov, gcur, greadOk, file)
           r == [raised |-> FALSE, avail |-> <<>>, target |-> 0]
       IN  resp' = WithFile(Recorded(Success(Message("GPU status", "")), r, NoTables,
                                     <<>>, <<g.status>>, g.log),
                            gpu_path, file)
    /\ pc' = "responding"
    /\ UNCHANGED <<cpuGov, gpuGov, gpu_path, gpu_dirs, cmd>>

\* set_governor, target cpu
SetGovernorCpu(govOk) ==
    /\ pc = "dispatching"
    /\ cmd.action = "set_governor"
    /\ SelectsCpu(cmd.target)
    /\ LET s == CpuSetGovernor(cmd.governor, cmd.cpu, cpuGov, govOk)
           r == [raised |-> FALSE, ret |-> s.ret, avail |-> <<>>, target |-> 0]
           base == Response(r, Message("governor set", Upper(cmd.target)),
                            Message("governor setting failed", Upper(cmd.target)))
       IN  /\ cpuGov' = s.gov
           /\ resp' = Recorded(base, r, NoTables, <<>>, <<>>, s.log)
    /\ pc' = "responding"
    /\ UNCHANGED <<gpuGov, gpu_path, gpu_dirs, cmd>>

\* set_governor, any other target
SetGovernorGpu(govOk) ==
    /\ pc = "dispatching"
    /\ cmd.action = "set_governor"
    /\ ~SelectsCpu(cmd.target)
    /\ LET s == GpuSetGovernor(cmd.governor, gpu_path, gpuGov, govOk)
           r == [raised |-> FALSE, ret |-> s.ret, avail |-> <<>>, target |-> 0]
           base == Response(r, Message("governor set", Upper(cmd.target)),
                            Message("governor setting failed", Upper(cmd.target)))
       IN  /\ gpuGov' = s.gov
           /\ resp' = Recorded(base, r, NoTables, <<>>, <<>>, s.log)
    /\ pc' = "responding"
    /\ UNCHANGED <<cpuGov, gpu_path, gpu_dirs, cmd>>

UnknownAction_generic ==
    /\ pc = "dispatching"
    /\ cmd.action \notin KnownActions
    /\ resp' = Error(Message("unknown action", ""))
    /\ pc' = "responding"
    /\ UNCHANGED <<cpuGov, gpuGov, gpu_path, gpu_dirs, cmd>>

\* the final else of the dispatch: the message interpolates the action string
UnknownAction ==
    /\ pc = "dispatching"
    /\ cmd.action \notin KnownActions
    /\ resp' = Error(Message("unknown action: ", cmd.action))
    /\ pc' = "responding"
    /\ UNCHANGED <<cpuGov, gpuGov, gpu_path, gpu_dirs, cmd>>

\* sendall() is done, `finally` closes the connection and handle_client
\* returns to the accept loop
Close ==
    /\ pc = "responding"
    /\ pc' = "idle"
    /\ cmd' = NoCmd
    /\ resp' = NoResp
    /\ UNCHANGED <<cpuGov, gpuGov, gpu_path, gpu_dirs>>

Next ==
    \/ \E c \in Commands : Accept(c)
    \/ InvalidJson
    \/ MissingFrequency
    \/ \E tables \in CpuTableSets, readOk \in BOOLEAN,
          govOk \in [Cores -> BOOLEAN], freqOk \in [Cores -> BOOLEAN] :
          SetFrequencyCpu(tables, readOk, govOk, freqOk,
                          CurAll(readOk), ReadAll(readOk))
    \/ \E file \in GpuTableFiles, readOk \in BOOLEAN, govOk \in BOOLEAN,
          knob \in [GpuKnobs -> {"absent", "ok", "fail"}] :
          SetFrequencyGpu(file, readOk, govOk, knob,
                          IF readOk THEN <<100>> ELSE <<>>, readOk)
    \/ \E st \in BOOLEAN, t \in StatusTableFiles, gst \in BOOLEAN,
          file \in GpuTableFiles :
          GetStatusAll(CurAll(st), ReadAll(st), CpuTables(t, t),
                       IF gst THEN <<100>> ELSE <<>>, gst, file)
    \/ \E st \in BOOLEAN, t \in StatusTableFiles :
          GetStatusCpu(CurAll(st), ReadAll(st), CpuTables(t, t))
    \/ \E gst \in BOOLEAN, file \in GpuTableFiles :
          GetStatusGpu(IF gst THEN <<100>> ELSE <<>>, gst, file)
    \/ \E govOk \in [Cores -> BOOLEAN] : SetGovernorCpu(govOk)
    \/ \E govOk \in BOOLEAN : SetGovernorGpu(govOk)
    \/ UnknownAction
    \/ Close

Spec == Init /\ [][Next]_vars

\* the resolution specification: every write succeeds, every file is
\* readable, the requests and the tables vary
NextResolve ==
    \/ \E c \in ResolveCommands : Accept(c)
    \/ \E t \in ResolveTables :
          SetFrequencyCpu(CpuTables(t, t), TRUE, AllOk, AllOk, CurAll(TRUE), AllOk)
    \/ \E t \in ResolveTables, present \in BOOLEAN :
          SetFrequencyGpu([present |-> present, freqs |-> t], TRUE, TRUE,
                          [k \in GpuKnobs |-> "ok"], <<100>>, TRUE)
    \/ Close

InitResolve ==
    /\ cpuGov = [c \in Cores |-> "userspace"]
    /\ gpuGov = "userspace"
    /\ gpu_dirs = {1}
    /\ gpu_path = find_gpu_path(gpu_dirs)
    /\ pc = "idle"
    /\ cmd = NoCmd
    /\ resp = NoResp

SpecResolve == InitResolve /\ [][NextResolve]_vars

\* the serving specification: the dispatcher started on one known hardware
\* state, every core and the GPU under userspace, so that a state under
\* another governor is the trace of a command served earlier
SpecServe == InitResolve /\ [][Next]_vars

\* between two connections a candidate path appears or disappears
FsChange(dirs) ==
    /\ pc = "idle"
    /\ dirs # gpu_dirs
    /\ gpu_dirs' = dirs
    /\ UNCHANGED <<cpuGov, gpuGov, gpu_path, pc, cmd, resp>>

\* the GPU commands of the discovery specification
DiscoverCommands ==
    {Command("set_frequency", "gpu", Req(200, 1), <<>>, "none"),
     Command("get_status", "gpu", Req(0, 1), <<>>, "none")}
    \cup {Command("set_governor", "gpu", Req(0, 1), <<>>, g) : g \in Governors}

\* the discovery specification: GPU commands on a filesystem whose
\* candidate paths come and go after construction
NextDiscover ==
    \/ \E c \in DiscoverCommands : Accept(c)
    \/ \E dirs \in SUBSET (1..Len(gpu_paths)) : FsChange(dirs)
    \/ \E file \in GpuTableFiles, ok \in BOOLEAN :
          SetFrequencyGpu(file, ok, ok, [k \in GpuKnobs |-> IF ok THEN "ok" ELSE "fail"],
                          IF ok THEN <<100>> ELSE <<>>, ok)
    \/ \E gst \in BOOLEAN, file \in GpuTableFiles :
          GetStatusGpu(IF gst THEN <<100>> ELSE <<>>, gst, file)
    \/ \E govOk \in BOOLEAN : SetGovernorGpu(govOk)
    \/ Close

\* construction on any filesystem: every subset of the candidates may exist
InitDiscover ==
    /\ cpuGov = [c \in Cores |-> "userspace"]
    /\ gpuGov \in Governors
    /\ gpu_dirs \in SUBSET (1..Len(gpu_paths))
    /\ gpu_path = find_gpu_path(gpu_dirs)
    /\ pc = "idle"
    /\ cmd = NoCmd
    /\ resp = NoResp

SpecDiscover == InitDiscover /\ [][NextDiscover]_vars

\* the status specification: get_status commands, every file of every core
\* readable or not independently
NextStatus ==
    \/ \E c \in StatusCommands : Accept(c)
    \/ \E cur \in [Cores -> CurFreqFiles], readOk \in [Cores -> BOOLEAN],
          t0 \in StatusTableFiles, t1 \in StatusTableFiles,
          gcur \in CurFreqFiles, greadOk \in BOOLEAN, file \in GpuTableFiles :
          GetStatusAll(cur, readOk, CpuTables(t0, t1), gcur, greadOk, file)
    \/ \E cur \in [Cores -> CurFreqFiles], readOk \in [Cores -> BOOLEAN],
          t0 \in StatusTableFiles, t1 \in StatusTableFiles :
          GetStatusCpu(cur, readOk, CpuTables(t0, t1))
    \/ \E gcur \in CurFreqFiles, greadOk \in BOOLEAN, file \in GpuTableFiles :
          GetStatusGpu(gcur, greadOk, file)
    \/ Close

\* the cores under any governors, the GPU under ondemand, with the first
\* candidate path or with none
InitStatus ==
    /\ cpuGov \in [Cores -> Governors]
    /\ gpuGov = "ondemand"
    /\ gpu_dirs \in {{}, {1}}
    /\ gpu_path = find_gpu_path(gpu_dirs)
    /\ pc = "idle"
    /\ cmd = NoCmd
    /\ resp = NoResp

SpecStatus == InitStatus /\ [][NextStatus]_vars

----------------------------------------------------------------------------
(* Properties of set_frequency: governor enforcement *)

\* a set_frequency command has called its controller and has been answered
SetFrequencyDone ==
    pc = "responding" /\ cmd.action = "set_frequency" /\ cmd.frequency # NoFrequency

IsFreqWrite(e) == e.op = "freq_write"

IsGovWrite(e) == e.op = "gov_write"

LogEvents == {resp.log[i] : i \in 1..Len(resp.log)}

\* C1: every frequency write of a command, CPU or GPU, is issued while the
\* governor of the written domain is "userspace".
C1_WritesOnlyUnderUserspace ==
    \A e \in LogEvents : IsFreqWrite(e) => e.gov = "userspace"

\* C2: when the governor switch that set_frequency issues fails, the command
\* issues no frequency write.
C2_NoWriteAfterFailedSwitch ==
    SetFrequencyDone =>
        ((\E e \in LogEvents : IsGovWrite(e) /\ ~e.ok)
            => ~(\E e \in LogEvents : IsFreqWrite(e)))

\* C3: set_frequency reads the governor first; when the value read is not
\* "userspace" (None included) its next operation is a governor write of
\* "userspace", ahead of every frequency write; when the value read is
\* "userspace" it issues no governor write at all.
C3_SwitchAttemptedFirst ==
    (SetFrequencyDone /\ Len(resp.log) > 0) =>
        /\ resp.log[1].op = "gov_read"
        /\ (resp.log[1].gov # "userspace" =>
              (/\ Len(resp.log) >= 2
               /\ IsGovWrite(resp.log[2])
               /\ resp.log[2].gov = "userspace"))
        /\ (resp.log[1].gov = "userspace" => ~(\E e \in LogEvents : IsGovWrite(e)))
        /\ \A i \in 1..Len(resp.log) : \A j \in 1..Len(resp.log) :
              ((IsFreqWrite(resp.log[i]) /\ IsGovWrite(resp.log[j])) => j < i)

\* the governor file could not be read, the switch was attempted and a
\* frequency write followed
C3_Witness ==
    /\ SetFrequencyDone
    /\ Len(resp.log) >= 3
    /\ resp.log[1].gov = None
    /\ IsGovWrite(resp.log[2])
    /\ \E i \in 3..Len(resp.log) : IsFreqWrite(resp.log[i])

\* C4: a set_frequency command whose governor switch failed, or whose
\* frequency writes all failed, is answered with status "error".
C4_ErrorWhenEnforcementFails ==
    SetFrequencyDone =>
        ((\/ \E e \in LogEvents : IsGovWrite(e) /\ ~e.ok
          \/ ~(\E e \in LogEvents : IsFreqWrite(e) /\ e.ok))
            => resp.status = "error")

----------------------------------------------------------------------------
(* Properties of set_frequency: target resolution *)

\* C5: a request n/d with 0 < n/d < 1 against a non-empty table of N entries
\* resolves to the entry at index floor(n/d * (N - 1)); the result is an
\* entry of the table, and for N > 1 the index is never the last one.
C5_IndexResolution ==
    (/\ SetFrequencyDone
     /\ 0 < cmd.frequency.n
     /\ cmd.frequency.n < cmd.frequency.d
     /\ Len(resp.avail) > 0) =>
        LET N == Len(resp.avail)
            n == cmd.frequency.n
            d == cmd.frequency.d
        IN  /\ ~resp.raised
            /\ \E k \in 0..(N - 1) :
                  /\ k * d <= n * (N - 1)
                  /\ n * (N - 1) < (k + 1) * d
                  /\ resp.target_freq = resp.avail[k + 1]
                  /\ (N > 1 => k < N - 1)
            /\ resp.target_freq \in Range(resp.avail)

\* the request 3/4 against the CPU table [100, 200, 400] gave index 1
C5_Witness ==
    /\ SetFrequencyDone
    /\ cmd.target = "cpu"
    /\ cmd.frequency = Req(3, 4)
    /\ resp.avail = <<100, 200, 400>>
    /\ resp.target_freq = 200

\* C6: an absolute target that is no entry of the table resolves to the
\* entry nearest to it, and of two equally near entries to the lower one.
C6_NearestTiesToLower ==
    (/\ SetFrequencyDone
     /\ ~resp.raised
     /\ ~(0 < cmd.frequency.n /\ cmd.frequency.n < cmd.frequency.d)
     /\ Len(resp.avail) > 0
     /\ IntOf(cmd.frequency) \notin Range(resp.avail)) =>
        LET t == IntOf(cmd.frequency)
        IN  /\ resp.target_freq \in Range(resp.avail)
            /\ \A v \in Range(resp.avail) :
                  \/ Abs(resp.target_freq - t) < Abs(v - t)
                  \/ /\ Abs(resp.target_freq - t) = Abs(v - t)
                     /\ resp.target_freq <= v

\* C7: every value a successful frequency write stores on a core is an entry
\* of that core's own table, and every value stored on the GPU an entry of
\* the GPU's table (a core or GPU whose table reads empty is left out).
C7_WrittenValueInOwnTable ==
    \A e \in LogEvents :
        (IsFreqWrite(e) /\ e.ok) =>
            IF e.dom = "cpu"
            THEN resp.tables[e.unit] # <<>> => e.freq \in Range(resp.tables[e.unit])
            ELSE resp.avail # <<>> => e.freq \in Range(resp.avail)

\* C8: a request n/d with n/d <= 0 or n/d >= 1 is truncated to an integer and
\* resolved as an absolute target, to a table entry nearest to it; the
\* requests 0 and 1 resolve to the lowest entry of the table.
C8_AbsoluteOutsideUnitInterval ==
    (/\ SetFrequencyDone
     /\ (cmd.frequency.n <= 0 \/ cmd.frequency.n >= cmd.frequency.d)
     /\ Len(resp.avail) > 0) =>
        LET n == cmd.frequency.n
            d == cmd.frequency.d
            t == IF n >= 0 THEN n \div d ELSE -((-n) \div d)
        IN  /\ ~resp.raised
            /\ resp.target_freq \in Range(resp.avail)
            /\ \A v \in Range(resp.avail) :
                  Abs(resp.target_freq - t) <= Abs(v - t)
            /\ ((n = 0 \/ n = d) =>
                  \A v \in Range(resp.avail) : resp.target_freq <= v)

\* the request 0 against the CPU table [400, 100, 200] gave 100
C8_Witness ==
    /\ SetFrequencyDone
    /\ cmd.target = "cpu"
    /\ cmd.frequency = Req(0, 1)
    /\ resp.avail = <<400, 100, 200>>
    /\ resp.target_freq = 100

----------------------------------------------------------------------------
(* Properties of the per-core loops *)

\* the cores a CPU command with this cpu argument covers, in order
CoresInScope(cpu) == IF cpu = <<>> THEN [i \in 1..NumCores |-> i - 1] ELSE cpu

FreqWrites == SelectSeq(resp.log, IsFreqWrite)

\* C9: CPU set_frequency, once the target is resolved, issues one frequency
\* write per core in scope, in order, whatever the earlier writes returned,
\* and answers "success" exactly when at least one of them succeeded.
C9_EveryCoreAttempted ==
    (SetFrequencyDone /\ cmd.target = "cpu") =>
        LET cpus == CoresInScope(cmd.cpu)
        IN  /\ ~resp.raised =>
                  /\ Len(FreqWrites) = Len(cpus)
                  /\ \A i \in 1..Len(cpus) : FreqWrites[i].unit = cpus[i]
            /\ (resp.status = "success") <=>
                  (\E i \in 1..Len(FreqWrites) : FreqWrites[i].ok)

\* the write failed on the first core, succeeded on a later one, and the
\* command was answered "success"
C9_Witness ==
    /\ SetFrequencyDone
    /\ cmd.target = "cpu"
    /\ Len(FreqWrites) >= 2
    /\ ~FreqWrites[1].ok
    /\ FreqWrites[2].ok
    /\ resp.status = "success"

\* a step that dispatches a CPU set_governor command
IsSetGovernorCpuStep ==
    /\ pc = "dispatching"
    /\ cmd.action = "set_governor"
    /\ cmd.target = "cpu"
    /\ pc' = "responding"

\* C10 as claimed: a CPU set_governor call that reports failure has changed
\* the governor of no core.
C10_FailureChangesNothing ==
    [][(IsSetGovernorCpuStep /\ resp'.status = "error") => cpuGov' = cpuGov]_vars

\* C10, amended: CPU set_governor writes the cores in scope in order and
\* stops at the first failing write, reporting failure exactly then; the
\* cores written before the failing one keep the requested governor, the
\* failing core and the cores after it keep theirs; after a success every
\* core in scope has the requested governor.
C10_AbortWithoutRollback ==
    [][IsSetGovernorCpuStep =>
        LET cpus == CoresInScope(cmd.cpu)
            log == resp'.log
            k == Len(log)
        IN  /\ k >= 1 /\ k <= Len(cpus)
            /\ \A i \in 1..k :
                  /\ log[i].op = "gov_write"
                  /\ log[i].unit = cpus[i]
                  /\ log[i].gov = cmd.governor
                  /\ (i < k => log[i].ok)
            /\ (resp'.status = "error") <=> ~log[k].ok
            /\ (resp'.status = "success") =>
                  (k = Len(cpus) /\ \A i \in 1..k : cpuGov'[cpus[i]] = cmd.governor)
            /\ \A c \in Cores :
                  cpuGov'[c] = IF \E i \in 1..k : log[i].unit = c /\ log[i].ok
                               THEN cmd.governor
                               ELSE cpuGov[c]
      ]_vars

\* the write succeeded on core 0 and failed on core 1: the call is answered
\* "error" and core 0 has the requested governor
C10_Witness ==
    /\ pc = "responding"
    /\ cmd.action = "set_governor"
    /\ cmd.target = "cpu"
    /\ resp.status = "error"
    /\ Len(resp.log) = 2
    /\ resp.log[1].ok
    /\ resp.log[1].unit = 0
    /\ cpuGov[0] = cmd.governor

----------------------------------------------------------------------------
(* Properties of the dispatcher *)

\* a decoded command has been dispatched and answered
Answered == pc = "responding" /\ cmd # NoCmd

\* C11: without a GPU control path every GPU operation of the dispatcher
\* (set_frequency, set_governor, get_status with target gpu) is answered
\* with status error, performs no hardware read or write, and is answered
\* by the dispatch itself, not by the exception handler.
C11_UnavailableGpuIsError ==
    (Answered /\ gpu_path = None /\ cmd.target = "gpu"
        /\ cmd.action \in KnownActions)
        => (resp.status = "error" /\ resp.log = <<>> /\ ~resp.raised)

\* C12: a set_frequency command without a frequency is answered with the
\* missing-parameter error and calls no controller: the step performs no
\* hardware read or write and leaves every governor as it was, whatever the
\* target.
C12_MissingFrequencyCallsNothing ==
    [][(pc = "dispatching" /\ cmd.action = "set_frequency"
            /\ cmd.frequency = NoFrequency)
        => (/\ resp'.status = "error"
            /\ resp'.msg = Message("missing frequency parameter", "")
            /\ resp'.log = <<>>
            /\ cpuGov' = cpuGov
            /\ gpuGov' = gpuGov)]_vars

C12_Witness ==
    /\ Answered
    /\ cmd.action = "set_frequency"
    /\ cmd.frequency = NoFrequency
    /\ cmd.target = "cpu"
    /\ resp.status = "error"
    /\ \E c \in Cores : cpuGov[c] # "userspace"

\* C13: a command whose action is none of set_frequency, get_status,
\* set_governor (an absent action reads as "") is answered with status error
\* and a message that interpolates the action string itself, and the step
\* performs no hardware read or write.
C13_UnknownActionNamed ==
    [][(pc = "dispatching" /\ cmd.action \notin KnownActions)
        => (/\ resp'.status = "error"
            /\ resp'.msg.fmt = "unknown action: "
            /\ resp'.msg.arg = cmd.action
            /\ resp'.log = <<>>
            /\ cpuGov' = cpuGov
            /\ gpuGov' = gpuGov)]_vars

C13_Witness ==
    /\ Answered
    /\ cmd.action = "reboot"
    /\ resp.status = "error"
    /\ resp.msg.arg = "reboot"

\* a get_status command with the given target has been answered
StatusDone(target) ==
    pc = "responding" /\ cmd.action = "get_status" /\ cmd.target = target

\* C14: get_status with target all is always answered with status success
\* and carries, in the same response, a CPU snapshot with one entry per
\* discovered core, in core order, and a GPU snapshot, whatever files are
\* readable and whether or not a GPU path was found.
C14_StatusAllAlwaysBoth ==
    StatusDone("all") =>
        /\ resp.status = "success"
        /\ resp.sent = 1
        /\ Len(resp.cpu_status) = NumCores
        /\ \A i \in 1..NumCores : resp.cpu_status[i].name = available_cpus[i]
        /\ Len(resp.gpu_status) = 1

C14_Witness ==
    /\ StatusDone("all")
    /\ gpu_path = None
    /\ resp.status = "success"
    /\ Len(resp.gpu_status) = 1
    /\ resp.gpu_status[1].path = None
    /\ Len(resp.cpu_status) = NumCores
    /\ \E i \in 1..NumCores :
          resp.cpu_status[i].governor = None /\ resp.cpu_status[i].current_freq = <<>>
    /\ \E i \in 1..NumCores : resp.cpu_status[i].governor # None

\* C15: every response the dispatcher sends, success or error, carries the
\* timestamp taken at dispatch.
C15_EveryResponseTimestamped ==
    pc = "responding" => resp.has_timestamp

\* C16: every decoded command is answered, also when the controller call
\* raises: the dispatch always has a step to take, the response it sends is
\* the only one, carries status success or error and a message, and the
\* connection is then closed and the accept loop resumed.
C16_AlwaysOneAnswer ==
    /\ (pc = "dispatching" => ENABLED Next)
    /\ (Answered =>
            /\ resp.sent = 1
            /\ resp.status \in {"success", "error"}
            /\ resp.msg.fmt # ""
            /\ ENABLED Close)

C16_Witness ==
    /\ Answered
    /\ resp.raised
    /\ cmd.cpu = <<NumCores>>
    /\ resp.status = "error"
    /\ resp.sent = 1
    /\ \E e \in LogEvents : IsGovWrite(e)

\* the command is a set_frequency or a set_governor
IsSetCommand == cmd.action \in {"set_frequency", "set_governor"}

\* C17: a set_frequency or set_governor command with target "cpu" reads and
\* writes CPU endpoints only and leaves the GPU governor alone; with any
\* other target ("gpu", "all", any other string) it reads and writes GPU
\* endpoints only and leaves every CPU governor alone.  The one command whose
\* I/O spans both domains is get_status with target "all".
C17_OneDomainPerSetCommand ==
    [][pc = "dispatching"
        => LET touched == {resp'.log[i].dom : i \in 1..Len(resp'.log)}
           IN  /\ (IsSetCommand /\ cmd.target = "cpu")
                      => (touched \subseteq {"cpu"} /\ gpuGov' = gpuGov)
               /\ (IsSetCommand /\ cmd.target # "cpu")
                      => (touched \subseteq {"gpu"} /\ cpuGov' = cpuGov)
               /\ (touched = {"cpu", "gpu"})
                      => (cmd.action = "get_status" /\ cmd.target = "all")]_vars

C17_Witness ==
    /\ Answered
    /\ cmd.action = "set_frequency"
    /\ cmd.target = "all"
    /\ resp.status = "success"
    /\ \E e \in LogEvents : IsGovWrite(e) /\ e.ok /\ e.dom = "gpu"
    /\ \E e \in LogEvents : IsFreqWrite(e) /\ e.ok /\ e.dom = "gpu"
    /\ \E c \in Cores : cpuGov[c] # "userspace"

StrictlyAscending(s) == \A i \in 1..(Len(s) - 1) : s[i] < s[i + 1]

\* C18: the available-frequency list a controller obtains, from the CPU
\* file, from the GPU file or from the GPU fallback table, is strictly
\* ascending, hence free of duplicates, whatever the file lists.
C18_TablesStrictlyAscending ==
    SetFrequencyDone => StrictlyAscending(resp.avail)

ReadOps == {"freq_read", "gov_read", "table_read"}

\* C19: a get_status command, whatever its target, only reads: its step
\* issues no governor write and no frequency write and leaves the governor
\* of every core and of the GPU, and the bound GPU path, as they were.
C19_StatusOnlyReads ==
    [][(pc = "dispatching" /\ cmd.action = "get_status")
        => (/\ \A i \in 1..Len(resp'.log) : resp'.log[i].op \in ReadOps
            /\ cpuGov' = cpuGov
            /\ gpuGov' = gpuGov
            /\ gpu_path' = gpu_path)]_vars

C19_Witness ==
    /\ StatusDone("cpu")
    /\ Len(resp.log) = 3 * NumCores
    /\ \E i \in 1..NumCores :
          /\ resp.cpu_status[i].governor = "ondemand"
          /\ cpuGov[available_cpus[i]] = "ondemand"

\* the j-th read of the i-th core's snapshot
StatusRead(i, j) == resp.log[3 * (i - 1) + j]

\* C20: the CPU snapshot of a get_status (target cpu or all) is always
\* delivered with status success and has exactly one entry per discovered
\* core, in core order; each field of an entry depends on its own file only:
\* current_freq is the value read, or null when that read failed, governor is
\* the core's governor, or null when that read failed, and available_freqs
\* is the core's table, empty when unreadable.
C20_CpuSnapshotPerField ==
    (pc = "responding" /\ cmd.action = "get_status" /\ cmd.target \in {"cpu", "all"})
        => /\ resp.status = "success"
           /\ Len(resp.cpu_status) = NumCores
           /\ \A i \in 1..NumCores :
                 LET c == available_cpus[i]
                     entry == resp.cpu_status[i]
                 IN  /\ entry.name = c
                     /\ StatusRead(i, 1).op = "freq_read" /\ StatusRead(i, 1).unit = c
                     /\ entry.current_freq = IF StatusRead(i, 1).ok
                                             THEN <<StatusRead(i, 1).freq>> ELSE <<>>
                     /\ StatusRead(i, 2).op = "gov_read" /\ StatusRead(i, 2).unit = c
                     /\ entry.governor = IF StatusRead(i, 2).ok THEN cpuGov[c] ELSE None
                     /\ StatusRead(i, 3).op = "table_read" /\ StatusRead(i, 3).unit = c
                     /\ entry.available_freqs = resp.tables[c]

C20_Witness ==
    /\ StatusDone("cpu")
    /\ resp.status = "success"
    /\ resp.cpu_status[1].governor = None
    /\ resp.cpu_status[1].current_freq # <<>>
    /\ resp.cpu_status[1].available_freqs = <<>>
    /\ resp.cpu_status[2].governor # None
    /\ resp.cpu_status[2].current_freq = <<>>
    /\ resp.cpu_status[2].available_freqs # <<>>

----------------------------------------------------------------------------
(* Properties of the GPU controller and of the serving loop *)

\* the events of the GPU frequency loop: existence tests and writes
KnobEvents == SelectSeq(resp.log, LAMBDA e : e.op \in {"exists", "freq_write"})

\* the positions of the existence tests among KnobEvents
IsExistsAt(i) == i \in 1..Len(KnobEvents) /\ KnobEvents[i].op = "exists"

\* C21: GPU set_frequency, once the target is resolved, tests the three
\* candidates userspace/freq, min_freq, max_freq in that order, writes the
\* target to every candidate that exists, whatever the earlier writes
\* returned, and to no other, and answers success exactly when one of these
\* writes was accepted (so it answers error when no candidate exists).
C21_EveryExistingKnobWritten ==
    (SetFrequencyDone /\ ~SelectsCpu(cmd.target) /\ gpu_path # None /\ ~resp.raised)
        => LET tests == SelectSeq(KnobEvents, LAMBDA e : e.op = "exists")
               writes == SelectSeq(KnobEvents, LAMBDA e : e.op = "freq_write")
           IN  /\ Len(tests) = Cardinality(GpuKnobs)
               /\ \A k \in GpuKnobs : tests[k].unit = k
               /\ \A i \in 1..Len(KnobEvents) :
                     IsExistsAt(i) =>
                        (KnobEvents[i].ok <=>
                            (/\ i < Len(KnobEvents)
                             /\ KnobEvents[i + 1].op = "freq_write"
                             /\ KnobEvents[i + 1].unit = KnobEvents[i].unit
                             /\ KnobEvents[i + 1].freq = resp.target_freq))
               /\ Len(writes) = Cardinality({k \in GpuKnobs : tests[k].ok})
               /\ (resp.status = "success") <=> (\E i \in 1..Len(writes) : writes[i].ok)

\* the first candidate refuses the write, the second is absent, the third
\* accepts it
C21_Witness ==
    /\ SetFrequencyDone
    /\ cmd.target = "gpu"
    /\ resp.status = "success"
    /\ \E e \in LogEvents : IsFreqWrite(e) /\ e.unit = 1 /\ ~e.ok
    /\ \E e \in LogEvents : e.op = "exists" /\ e.unit = 2 /\ ~e.ok
    /\ \E e \in LogEvents : IsFreqWrite(e) /\ e.unit = 3 /\ e.ok

\* the governors and the bound GPU path
hardware == <<cpuGov, gpuGov, gpu_path>>

\* C22: handling is strictly sequential.  A connection is taken only when
\* idle, with no command and no response pending; a dispatched command goes
\* to responding with its one response and keeps being the only command; a
\* response is followed by the close, back to idle; and the hardware changes
\* in the dispatch step only, hence before the response is out and never
\* between two commands.
C22_StrictlySequential ==
    [][/\ (pc = "idle") =>
            (/\ cmd = NoCmd /\ resp = NoResp
             /\ pc' \in {"dispatching", "responding"}
             /\ (pc' = "responding") => (cmd' = NoCmd /\ resp'.status = "error"))
       /\ (pc = "dispatching") =>
            (pc' = "responding" /\ cmd' = cmd /\ resp = NoResp /\ resp'.sent = 1)
       /\ (pc = "responding") => (pc' = "idle" /\ cmd' = NoCmd /\ resp' = NoResp)
       /\ (hardware' # hardware) => (pc = "dispatching" /\ pc' = "responding")
       /\ (cmd' # cmd /\ cmd' # NoCmd) => (pc = "idle" /\ pc' = "dispatching")]_vars

\* a third connection is being dispatched after two commands that changed
\* the CPU and the GPU governor were answered and closed
C22_Witness ==
    /\ pc = "dispatching"
    /\ cmd.action = "get_status"
    /\ resp = NoResp
    /\ cpuGov[0] = "ondemand"
    /\ gpuGov = "ondemand"

\* gpu_path is the candidate of least index among those in dirs, None if
\* dirs is empty
IsFirstOf(dirs) ==
    IF dirs = {} THEN gpu_path = None
    ELSE \E i \in dirs : gpu_path = gpu_paths[i] /\ \A j \in dirs : i <= j

\* C23: the path bound at construction is the first candidate, in list
\* order, that exists then, None if none does; afterwards no step of the
\* service changes it, whatever command is served and whichever candidate
\* has appeared or disappeared in the meantime.
C23_PathBoundOnce ==
    /\ IsFirstOf(gpu_dirs)
    /\ [][gpu_path' = gpu_path]_vars

\* a GPU command is answered on the path bound at construction although
\* that path is gone and a candidate of higher priority now exists
C23_Witness ==
    /\ pc = "responding"
    /\ cmd.action = "get_status"
    /\ gpu_path = gpu_paths[2]
    /\ gpu_dirs = {1}
    /\ resp.gpu_status[1].path = gpu_paths[2]

\* the table read of the answered command
TableReads == SelectSeq(resp.log, LAMBDA e : e.op = "table_read")

\* C24: in a GPU set_frequency with a bound path, the table is the
\* fallback table exactly when the list file is absent or its read fails,
\* and the request is then resolved against the fallback table; a readable
\* list file gives its own values, sorted, an empty file the empty list,
\* never the fallback; without a bound path the table is empty.
C24_FallbackOnlyWithoutList ==
    (SetFrequencyDone /\ ~SelectsCpu(cmd.target)) =>
        /\ (gpu_path = None) => (resp.avail = <<>> /\ resp.log = <<>>)
        /\ (gpu_path # None) =>
              /\ Len(TableReads) >= 1
              /\ TableReads[1].ok = resp.gpu_file.present
              /\ resp.gpu_file.present =>
                    /\ resp.avail = Sorted(resp.gpu_file.freqs)
                    /\ resp.avail # GpuFallbackFreqs
              /\ ~resp.gpu_file.present =>
                    /\ resp.avail = GpuFallbackFreqs
                    /\ Len(resp.avail) = 18
                    /\ (~resp.raised => resp.target_freq \in Range(GpuFallbackFreqs))
                    /\ \A e \in LogEvents :
                          IsFreqWrite(e) => e.freq \in Range(GpuFallbackFreqs)

\* the list file is absent and the request 1/2 is written as the entry of
\* index int(0.5 * 17) = 8 of the fallback table
C24_Witness ==
    /\ SetFrequencyDone
    /\ cmd.target = "gpu"
    /\ cmd.frequency = Req(1, 2)
    /\ ~resp.gpu_file.present
    /\ resp.target_freq = GpuFallbackFreqs[9]
    /\ \E e \in LogEvents : IsFreqWrite(e) /\ e.ok /\ e.freq = GpuFallbackFreqs[9]

----------------------------------------------------------------------------
(* Properties of CPU set_frequency: scope and sampling *)

\* the step dispatches a set_frequency to the CPU controller
IsSetFrequencyCpuStep ==
    /\ pc = "dispatching"
    /\ cmd.action = "set_frequency"
    /\ cmd.frequency # NoFrequency
    /\ SelectsCpu(cmd.target)

\* the I/O of the controller call in a log: what precedes the snapshot that
\* a successful command appends, which starts with a current-frequency read
CallPart(log) ==
    LET snap == {i \in 1..Len(log) : log[i].op = "freq_read"}
    IN  IF snap = {} THEN log
        ELSE SubSeq(log, 1, (CHOOSE i \in snap : \A j \in snap : i <= j) - 1)

\* C25: a CPU set_frequency call reads the governor once, from the first
\* core in scope (core 0 without a core index, the given core otherwise),
\* before anything else; it switches governors exactly when the value read
\* there is not "userspace"; the governor of no other core is read before
\* the frequency is applied.
C25_GovernorSampledOnFirstCore ==
    [][IsSetFrequencyCpuStep =>
        LET first == CoresInScope(cmd.cpu)[1]
            call == CallPart(resp'.log)
            read == call[1]
        IN  /\ read.op = "gov_read"
            /\ read.unit = first
            /\ read.gov = IF read.ok /\ first \in Cores THEN cpuGov[first] ELSE None
            /\ \A i \in 2..Len(call) : call[i].op # "gov_read"
            /\ (\E i \in 1..Len(call) : IsGovWrite(call[i])) <=> (read.gov # "userspace")]_vars

\* core 0 is under userspace and core 1 is not: no switch is issued and the
\* frequency is written to core 1 as well
C25_Witness ==
    /\ SetFrequencyDone
    /\ cmd.target = "cpu"
    /\ cmd.cpu = <<>>
    /\ resp.log[1].gov = "userspace"
    /\ \A e \in LogEvents : ~IsGovWrite(e)
    /\ cpuGov[1] = "ondemand"
    /\ \E e \in LogEvents : IsFreqWrite(e) /\ e.unit = 1 /\ e.ok

\* C26: a CPU set_frequency call reads one frequency table, that of the first
\* core in scope, before any frequency write; the target is resolved against
\* that table, and every frequency write of the call, on whichever core,
\* carries that one value.
C26_OneTargetForAllCores ==
    (SetFrequencyDone /\ SelectsCpu(cmd.target)) =>
        LET first == CoresInScope(cmd.cpu)[1]
            call == CallPart(resp.log)
            reads == {i \in 1..Len(call) : call[i].op = "table_read"}
        IN  /\ Cardinality(reads) = 1
            /\ \A i \in reads :
                  /\ call[i].unit = first
                  /\ \A j \in 1..Len(call) : IsFreqWrite(call[j]) => i < j
            /\ resp.avail = CpuReadFrequencies(first, resp.tables)
            /\ ~resp.raised =>
                  /\ resp.target_freq = CpuResolve(cmd.frequency, resp.avail).target
                  /\ \A j \in 1..Len(call) :
                        IsFreqWrite(call[j]) => call[j].freq = resp.target_freq

\* core 1 accepts a value taken from core 0's table that its own table does
\* not list
C26_Witness ==
    /\ SetFrequencyDone
    /\ cmd.target = "cpu"
    /\ cmd.cpu = <<>>
    /\ resp.tables[0] # resp.tables[1]
    /\ resp.target_freq \in Range(resp.tables[0]) \ Range(resp.tables[1])
    /\ \E e \in LogEvents : IsFreqWrite(e) /\ e.unit = 1 /\ e.ok /\ e.freq = resp.target_freq
    /\ \E e \in LogEvents : IsFreqWrite(e) /\ e.unit = 0 /\ e.ok /\ e.freq = resp.target_freq

\* the units of the events of a log that satisfy Is, in log order
UnitsOf(log, Is(_)) ==
    LET sel == SelectSeq(log, Is) IN [i \in 1..Len(sel) |-> sel[i].unit]

IsPrefixOf(s, t) == Len(s) <= Len(t) /\ \A i \in 1..Len(s) : s[i] = t[i]

\* C27: a CPU set_frequency or set_governor command that names core k reads
\* and writes the files of core k only, and the governor of every other core
\* is as before; without a core index the governor writes and the frequency
\* writes go through the discovered cores in ascending order.
C27_NamedCoreOnly ==
    [][(IsSetFrequencyCpuStep \/ IsSetGovernorCpuStep) =>
        LET call == CallPart(resp'.log)
        IN  IF cmd.cpu # <<>>
            THEN /\ \A i \in 1..Len(call) : call[i].unit = cmd.cpu[1]
                 /\ \A c \in Cores \ {cmd.cpu[1]} : cpuGov'[c] = cpuGov[c]
            ELSE /\ IsPrefixOf(UnitsOf(call, IsGovWrite), available_cpus)
                 /\ IsPrefixOf(UnitsOf(call, IsFreqWrite), available_cpus)
                 /\ \A i \in 1..Len(available_cpus) - 1 :
                       available_cpus[i] < available_cpus[i + 1]]_vars

\* a set_frequency naming core 1 switched core 1 to userspace and wrote its
\* frequency, while core 0 stays under ondemand
C27_Witness ==
    /\ SetFrequencyDone
    /\ cmd.target = "cpu"
    /\ cmd.cpu = <<1>>
    /\ \E e \in LogEvents : IsGovWrite(e) /\ e.unit = 1 /\ e.ok
    /\ \E e \in LogEvents : IsFreqWrite(e) /\ e.unit = 1 /\ e.ok
    /\ cpuGov[1] = "userspace"
    /\ cpuGov[0] = "ondemand"

----------------------------------------------------------------------------
(* Properties of a failed set_frequency *)

\* a step that answers a set_frequency command with status "error"
IsFailedSetFrequencyStep ==
    /\ pc = "dispatching"
    /\ cmd.action = "set_frequency"
    /\ pc' = "responding"
    /\ resp'.status = "error"

\* the log holds a governor write that was accepted on unit u of domain d
SwitchedIn(log, d, u) ==
    \E i \in 1..Len(log) :
        IsGovWrite(log[i]) /\ log[i].dom = d /\ log[i].unit = u /\ log[i].ok

\* C28 as claimed: a set_frequency command answered with status "error" has
\* changed the governor of no domain.
C28_ErrorLeavesGovernors ==
    [][IsFailedSetFrequencyStep => (cpuGov' = cpuGov /\ gpuGov' = gpuGov)]_vars

\* C28, amended: a set_frequency command answered with status "error" does
\* not restore governors: every core, and the GPU, whose switch to
\* "userspace" was accepted earlier in the call is under "userspace"
\* afterwards, and every other governor is as before.
C28_ErrorKeepsSwitch ==
    [][IsFailedSetFrequencyStep =>
        /\ \A c \in Cores :
              cpuGov'[c] = IF SwitchedIn(resp'.log, "cpu", c) THEN "userspace"
                           ELSE cpuGov[c]
        /\ gpuGov' = IF SwitchedIn(resp'.log, "gpu", 0) THEN "userspace"
                     ELSE gpuGov]_vars

\* target resolution failed on an empty table after core 0 was switched from
\* ondemand to userspace: the command is answered with an error and core 0
\* is under userspace
C28_Witness ==
    /\ SetFrequencyDone
    /\ cmd.target = "cpu"
    /\ resp.status = "error"
    /\ resp.raised
    /\ resp.avail = <<>>
    /\ resp.log[1].ok
    /\ resp.log[1].unit = 0
    /\ resp.log[1].gov = "ondemand"
    /\ SwitchedIn(resp.log, "cpu", 0)
    /\ cpuGov[0] = "userspace"

====
